---- MODULE Spec2Model ----
(***************************************************************************)
(* Poster resolution (getPosterUrl) and metadata assembly (buildMetas) of  *)
(* src/helpers/catalog.js.                                                 *)
(*                                                                         *)
(* One buildMetas invocation is in flight at a time; its items are         *)
(* processed by concurrently dispatched async callbacks.  A state of the   *)
(* model is a state of the program at a point where every callback is      *)
(* suspended on an outstanding I/O call (cache, probe, cloud store, render *)
(* service, logo service, media database, reference table); the           *)
(* synchronous code between two I/O completions is one step.               *)
(*                                                                         *)
(* Encoding of JavaScript values:                                          *)
(*   - strings that the code splits on "-" are sequences of segments       *)
(*     ("en-US" is <<"en","US">>), the empty string / undefined is <<>>;   *)
(*   - poster_path is a string, "" when absent;                            *)
(*   - vote_average is <<>> when absent, <<v>> with v in thousandths       *)
(*     otherwise (7.666 is <<7666>>);                                      *)
(*   - URLs, ratings and ids are records tagged by their shape.            *)
(***************************************************************************)
EXTENDS Integers, Sequences, FiniteSets, TLC

VARIABLES
    cache,      \* Poster Cache: content id -> cached entry (poster_url) or NoEntry
    status,     \* buildMetas call: "idle" | "running" | "resolved" | "rejected"
    ctx,        \* arguments of the running buildMetas call
    items,      \* filteredResults of the running call
    task,       \* per item: the state of its async callback
    out         \* value buildMetas resolved with

vars == <<cache, status, ctx, items, task, out>>

----------------------------------------------------------------------------
(* Bounds *)

MaxItems == 2

----------------------------------------------------------------------------
(* Values *)

NoUrl == [svc |-> "null"]
NoId == [ns |-> "null"]
NoRating == [fmt |-> "null", tenths |-> 0]
NoEntry == [poster_url |-> NoUrl, present |-> FALSE]

Entry(url) == [poster_url |-> url, present |-> TRUE]

\* String.prototype.split("-")[0] on a string held as its "-"-separated segments.
FirstSegment(s) == IF s = <<>> THEN "" ELSE s[1]

\* JavaScript truthiness of content.vote_average (undefined, null and 0 are falsy).
VoteTruthy(v) == v # <<>> /\ v[1] # 0

\* parseFloat(v).toFixed(1): v in thousandths, the result in tenths.
ToFixed1(v) == (v + 50) \div 100

----------------------------------------------------------------------------
(* Pure helpers of the poster pipeline *)

\* Mutant of getRpdbPoster: only tier t1 omits the language parameter.
getRpdbPoster_OnlyT1(type, id, language, rpdbkey) ==
    LET tier == FirstSegment(rpdbkey)
        lang == FirstSegment(language)
        baseUrl == [svc |-> "rpdb", key |-> rpdbkey, type |-> type, id |-> id,
                    hasLang |-> FALSE, lang |-> ""]
    IN  IF tier = "t1"
        THEN baseUrl
        ELSE [baseUrl EXCEPT !.hasLang = TRUE, !.lang = lang]

\* getRpdbPoster: the candidate paid-service URL.
getRpdbPoster(type, id, language, rpdbkey) ==
    LET tier == FirstSegment(rpdbkey)
        lang == FirstSegment(language)
        baseUrl == [svc |-> "rpdb", key |-> rpdbkey, type |-> type, id |-> id,
                    hasLang |-> FALSE, lang |-> ""]
    IN  IF tier = "t0" \/ tier = "t1"
        THEN baseUrl
        ELSE [baseUrl EXCEPT !.hasLang = TRUE, !.lang = lang]

\* `https://image.tmdb.org/t/p/w500${content.poster_path}`
tmdbFallbackUrl(c) ==
    [svc |-> "tmdb", prefix |-> "https://image.tmdb.org/t/p/w500", path |-> c.poster_path]

\* const rating = content.vote_average ? parseFloat(...).toFixed(1) : 'NR'
rating(c) ==
    IF VoteTruthy(c.vote_average)
    THEN [fmt |-> "fixed1", tenths |-> ToFixed1(c.vote_average[1])]
    ELSE [fmt |-> "NR", tenths |-> 0]

\* const contentId = `${content.id}-${rating}`
contentId(c) == [id |-> c.id, rating |-> rating(c)]

\* imdbRating: content.vote_average ? parseFloat(...).toFixed(1) : null
imdbRating(c) ==
    IF VoteTruthy(c.vote_average)
    THEN [fmt |-> "fixed1", tenths |-> ToFixed1(c.vote_average[1])]
    ELSE NoRating

\* What the Cloud Poster Store answers on a hit, and what the render service
\* answers with on success, for a cloud key.
CloudUrl(key) == [svc |-> "cloud", key |-> key]
RenderedUrl(key) == [svc |-> "rendered", key |-> key]

\* response.data of the POST /cache-rated-poster call.
CreateResponses(c) ==
    { [success |-> s, url |-> u] : s \in BOOLEAN, u \in {NoUrl, RenderedUrl(contentId(c))} }

\* HTTP status of the HEAD probe when axios resolves.
ProbeStatuses == {200, 204}

----------------------------------------------------------------------------
(* Reference table of genres (rows of the genres table) *)

GenreRows ==
    { [genre_id |-> 1, media_type |-> "movie", language |-> <<"en", "US">>, genre_name |-> "Action"],
      [genre_id |-> 3, media_type |-> "movie", language |-> <<"en", "US">>, genre_name |-> "Drama"],
      [genre_id |-> 1, media_type |-> "tv", language |-> <<"en", "US">>, genre_name |-> "Action & Adventure"] }

\* getGenreName when the query succeeds: the first matching row's name, or null ("").
getGenreName(genreId, type, language) ==
    LET mediaType == IF type = "series" THEN "tv" ELSE "movie"
        rows == { r \in GenreRows : /\ r.genre_id = genreId
                                    /\ r.media_type = mediaType
                                    /\ r.language = language }
    IN  IF rows = {} THEN "" ELSE (CHOOSE r \in rows : TRUE).genre_name

----------------------------------------------------------------------------
(* The async callback of one item *)

Pending == [st |-> "pending"]
Dropped == [st |-> "null"]
Rejected == [st |-> "rejected"]

NoCalls == [get |-> 0, probe |-> 0, set |-> 0, cloud |-> 0, create |-> 0,
            logo |-> 0, xref |-> 0, genre |-> 0]
NoEvents == [get |-> "none", probe |-> "none", set |-> "none", cloud |-> "none",
             create |-> "none", logo |-> "none", xref |-> "none", genre |-> "none"]

NewTask ==
    [pc |-> "start", cachedPoster |-> NoEntry, rpdbImage |-> NoUrl,
     poster |-> "pending", posterUrl |-> NoUrl, logo |-> NoUrl, imdbId |-> NoId,
     pending |-> {}, names |-> <<>>, calls |-> NoCalls, ev |-> NoEvents,
     result |-> Pending]

\* genres.filter(Boolean)
Truthy(name) == name # ""

\* The record returned at lines 178-198.
MetaRecord(cx, c, t) ==
    LET metaId == IF t.imdbId # NoId THEN t.imdbId ELSE [ns |-> "tmdb", id |-> c.id]
    IN  [st |-> "meta",
         id |-> metaId,
         type |-> IF cx.catalogType = "movies" THEN "movie" ELSE "series",
         poster |-> t.posterUrl,
         logo |-> t.logo,
         imdbRating |-> imdbRating(c),
         genres |-> SelectSeq(t.names, Truthy),
         defaultVideoId |-> IF t.imdbId # NoId THEN t.imdbId ELSE [ns |-> "tmdb", id |-> c.id]]

\* return { ... }: the callback fulfils with the record.
Finish(cx, c, t) == [t EXCEPT !.pc = "done", !.result = MetaRecord(cx, c, t)]

\* Mutant of ItemCatch: the item's catch block rethrows.
ItemCatch_Rethrow(t) ==
    [t EXCEPT !.pc = "done", !.result = Rejected, !.pending = {}, !.names = <<>>,
              !.cachedPoster = NoEntry, !.rpdbImage = NoUrl,
              !.logo = NoUrl, !.imdbId = NoId]

\* catch (error) { log.error(...); return null; }: the callback fulfils with null;
\* its locals are out of scope.
ItemCatch(t) ==
    [t EXCEPT !.pc = "done", !.result = Dropped, !.pending = {}, !.names = <<>>,
              !.cachedPoster = NoEntry, !.rpdbImage = NoUrl,
              !.logo = NoUrl, !.imdbId = NoId]

\* genres: content.genre_ids ? await Promise.all(genre_ids.map(getGenreName)) : []
StartGenres(cx, c, t) ==
    IF c.genre_ids = <<>>
    THEN Finish(cx, c, t)
    ELSE [t EXCEPT !.pc = "genres",
                   !.pending = 1..Len(c.genre_ids),
                   !.names = [g \in 1..Len(c.genre_ids) |-> ""],
                   !.calls.genre = Len(c.genre_ids)]

\* if (tmdbApiKey) { try { externalIds = await makeRequest(...) ...
StartXref(cx, c, t) ==
    IF cx.tmdbApiKey # <<>>
    THEN [t EXCEPT !.pc = "xref", !.calls.xref = @ + 1]
    ELSE StartGenres(cx, c, t)

\* if (fanartApiKey) { logo = await getFanartPoster(...) }
StartLogo(cx, c, t) ==
    IF cx.fanartApiKey # <<>>
    THEN [t EXCEPT !.pc = "logo", !.calls.logo = @ + 1]
    ELSE StartXref(cx, c, t)

\* getPosterUrl returned url: const posterUrl = await getPosterUrl(...)
PosterReturned(cx, c, t, url) ==
    StartLogo(cx, c, [t EXCEPT !.poster = "returned", !.posterUrl = url])

\* getPosterUrl rejected: the await throws inside the item's try block.
PosterRejected(cx, c, t) == ItemCatch([t EXCEPT !.poster = "rejected"])

\* Lines 84-93: fallback URL, rating, cloud key, then the Cloud Poster Store query.
CloudTier(cx, c, t) == [t EXCEPT !.pc = "cloudGet", !.calls.cloud = @ + 1]

\* Mutant of StartPoster: the key is tested before the poster path.
StartPoster_KeyFirst(cx, c, t) ==
    IF cx.rpdbApiKey # <<>>
    THEN [t EXCEPT !.pc = "cacheGet", !.calls.get = @ + 1]
    ELSE IF c.poster_path = ""
         THEN PosterReturned(cx, c, t, NoUrl)
         ELSE CloudTier(cx, c, t)

\* Mutant of StartPoster: the Poster Cache is consulted without a key.
StartPoster_AlwaysCache(cx, c, t) ==
    IF c.poster_path = ""
    THEN PosterReturned(cx, c, t, NoUrl)
    ELSE [t EXCEPT !.pc = "cacheGet", !.calls.get = @ + 1]

\* Mutant of StartPoster: the logo fetch is dispatched together with poster
\* resolution.
StartPoster_WithLogo(cx, c, t) ==
    LET u == IF cx.fanartApiKey # <<>> THEN [t EXCEPT !.calls.logo = @ + 1] ELSE t
    IN  IF c.poster_path = ""
        THEN PosterReturned(cx, c, t, NoUrl)
        ELSE IF cx.rpdbApiKey # <<>>
             THEN [u EXCEPT !.pc = "cacheGet", !.calls.get = @ + 1]
             ELSE CloudTier(cx, c, u)

\* Lines 59-65: entry of getPosterUrl up to its first await.
StartPoster(cx, c, t) ==
    IF c.poster_path = ""
    THEN PosterReturned(cx, c, t, NoUrl)
    ELSE IF cx.rpdbApiKey # <<>>
         THEN [t EXCEPT !.pc = "cacheGet", !.calls.get = @ + 1]
         ELSE CloudTier(cx, c, t)

\* Mutant of AfterCacheGet: a cached entry is probed again before it is used.
AfterCacheGet_Revalidate(cx, c, t, entry) ==
    [t EXCEPT !.pc = "probe",
              !.cachedPoster = entry,
              !.ev.get = IF entry.present THEN "hit" ELSE "miss",
              !.rpdbImage = getRpdbPoster(cx.catalogType, c.id, cx.language, cx.rpdbApiKey),
              !.calls.probe = @ + 1]

\* Lines 66-73: after getCachedPoster resolved with `entry`.
AfterCacheGet(cx, c, t, entry) ==
    IF entry.present
    THEN PosterReturned(cx, c, [t EXCEPT !.cachedPoster = entry, !.ev.get = "hit"],
                        entry.poster_url)
    ELSE [t EXCEPT !.pc = "probe",
                   !.ev.get = "miss",
                   !.rpdbImage = getRpdbPoster(cx.catalogType, c.id, cx.language, cx.rpdbApiKey),
                   !.calls.probe = @ + 1]

\* Mutant of AfterProbe: every resolved probe leads to the cache write.
AfterProbe_Any2xx(cx, c, t, code) ==
    [t EXCEPT !.pc = "cacheSet",
              !.ev.probe = IF code = 200 THEN "ok" ELSE "fail",
              !.calls.set = @ + 1]

\* Lines 74-78: after axios.head resolved with `code`.
AfterProbe(cx, c, t, code) ==
    IF code = 200
    THEN [t EXCEPT !.pc = "cacheSet", !.ev.probe = "ok", !.calls.set = @ + 1]
    ELSE CloudTier(cx, c, [t EXCEPT !.ev.probe = "fail"])

\* Mutant of ProbeCatch: a failed probe is retried once before the cloud tier.
ProbeCatch_Retry(cx, c, t) ==
    IF t.calls.probe < 2
    THEN [t EXCEPT !.pc = "probe", !.calls.probe = @ + 1]
    ELSE CloudTier(cx, c, t)

\* Lines 79-81: axios.head or setCachedPoster threw inside the try block.
ProbeCatch(cx, c, t) == CloudTier(cx, c, t)

\* Line 77: return rpdbImage after setCachedPoster resolved.
AfterCacheSet(cx, c, t) ==
    PosterReturned(cx, c, [t EXCEPT !.ev.set = "ok"], t.rpdbImage)

\* Mutant of AfterCloudGet: the rated poster is created even on a hit.
AfterCloudGet_AlwaysCreate(cx, c, t, cloudUrl) ==
    [t EXCEPT !.pc = "create",
              !.ev.cloud = IF cloudUrl # NoUrl THEN "hit" ELSE "miss",
              !.calls.create = @ + 1]

\* Mutant of AfterCloudGet: a miss settles for the raw image and creates nothing.
AfterCloudGet_NoCreate(cx, c, t, cloudUrl) ==
    IF cloudUrl # NoUrl
    THEN PosterReturned(cx, c, [t EXCEPT !.ev.cloud = "hit"], cloudUrl)
    ELSE PosterReturned(cx, c, [t EXCEPT !.ev.cloud = "miss"], tmdbFallbackUrl(c))

\* Lines 94-105: after cloudStorage.getPosterUrl resolved with cloudUrl.
AfterCloudGet(cx, c, t, cloudUrl) ==
    IF cloudUrl # NoUrl
    THEN PosterReturned(cx, c, [t EXCEPT !.ev.cloud = "hit"], cloudUrl)
    ELSE [t EXCEPT !.pc = "create", !.ev.cloud = "miss", !.calls.create = @ + 1]

\* Lines 117-120: the outer catch.
CloudCatch(cx, c, t) ==
    PosterReturned(cx, c, [t EXCEPT !.ev.cloud = "error"], tmdbFallbackUrl(c))

\* Mutant of AfterCreate: response.data.url is returned without the success test.
AfterCreate_ReturnsDataUrl(cx, c, t, data) ==
    PosterReturned(cx, c,
                   [t EXCEPT !.ev.create = IF data.success /\ data.url # NoUrl
                                           THEN "ok" ELSE "fail"],
                   data.url)

\* Lines 107-116: after axios.post resolved with response.data = data.
AfterCreate(cx, c, t, data) ==
    IF data.success /\ data.url # NoUrl
    THEN PosterReturned(cx, c, [t EXCEPT !.ev.create = "ok"], data.url)
    ELSE PosterReturned(cx, c, [t EXCEPT !.ev.create = "fail"], tmdbFallbackUrl(c))

\* Lines 111-114: the inner catch.
CreateCatch(cx, c, t) ==
    PosterReturned(cx, c, [t EXCEPT !.ev.create = "error"], tmdbFallbackUrl(c))

\* Line 148 resolved with `logo` (NoUrl when the service has none).
AfterLogo(cx, c, t, logo) ==
    StartXref(cx, c, [t EXCEPT !.logo = logo,
                               !.ev.logo = IF logo = NoUrl THEN "empty" ELSE "ok"])

\* Line 148 rejected: no try block of its own, so the item's catch runs.
LogoThrow(cx, c, t) == ItemCatch([t EXCEPT !.ev.logo = "error"])

\* Line 158: imdbId = externalIds.imdb_id
AfterXref(cx, c, t, imdb) ==
    StartGenres(cx, c, [t EXCEPT !.imdbId = imdb, !.ev.xref = "ok"])

\* Mutant of XrefCatch: the failure of the cross-reference fetch is not caught
\* locally and reaches the item's catch block.
XrefCatch_Rethrow(cx, c, t) == ItemCatch([t EXCEPT !.ev.xref = "error"])

\* Lines 159-161: catch { log.error(...) }, imdbId stays null.
XrefCatch(cx, c, t) == StartGenres(cx, c, [t EXCEPT !.ev.xref = "error"])

\* Mutant of AfterGenre: the names are collected in the order the lookups complete.
AfterGenre_CompletionOrder(cx, c, t, g) ==
    LET k == Len(c.genre_ids) - Cardinality(t.pending) + 1
        u == [t EXCEPT !.pending = @ \ {g},
                       !.names[k] = getGenreName(c.genre_ids[g], cx.catalogType, cx.language)]
    IN  IF u.pending = {} THEN Finish(cx, c, u) ELSE u

\* Lines 189-193: the lookup of the g-th genre id resolved.
AfterGenre(cx, c, t, g) ==
    LET u == [t EXCEPT !.pending = @ \ {g},
                       !.names[g] = getGenreName(c.genre_ids[g], cx.catalogType, cx.language)]
    IN  IF u.pending = {} THEN Finish(cx, c, u) ELSE u

\* Lines 131-133 and 188: getGenreName rethrows, Promise.all rejects, the await
\* throws inside the item's try block.
GenreThrow(cx, c, t) == ItemCatch([t EXCEPT !.ev.genre = "error"])

----------------------------------------------------------------------------
(* Inputs *)

Content(id, path, vote, genres) ==
    [id |-> id, poster_path |-> path, vote_average |-> vote, genre_ids |-> genres]

Context(kind, language, rpdb, fanart, tmdb) ==
    [catalogType |-> kind, language |-> language, rpdbApiKey |-> rpdb,
     fanartApiKey |-> fanart, tmdbApiKey |-> tmdb]

NoCtx == Context("", <<>>, <<>>, <<>>, <<>>)

Ids == {1, 2, 3}

\* A page of results of the media database: the items of `page`, repeated.
PageItem(page, k) == page[((k - 1) % Len(page)) + 1]

\* The batches buildMetas is called with: the first n items of a page.
Batches(pages) ==
    { [k \in 1..n |-> PageItem(page, k)] : page \in pages, n \in 0..MaxItems }

\* Items and contexts that exercise the poster pipeline: no logo-service key, no
\* lookup key, no genre ids.
PA == Content(1, "/a.jpg", <<7666>>, <<>>)
PB == Content(2, "", <<>>, <<>>)
PC == Content(1, "/a.jpg", <<0>>, <<>>)
PD == Content(2, "/b.jpg", <<>>, <<>>)

PosterPages == { <<PA>>, <<PA, PB>>, <<PC, PA>>, <<PD, PA>>, <<PB, PC>> }

PosterContexts ==
    { Context("movies", l, r, <<>>, <<>>) :
        l \in {<<"en", "US">>, <<"fr">>}, r \in {<<>>, <<"t1", "k">>, <<"t2", "k">>} }
    \cup { Context("series", <<"en", "US">>, <<"t1", "k">>, <<>>, <<>>) }

\* Items and contexts that exercise the assembly of a record: no paid-service key.
MA == Content(1, "", <<7666>>, <<1, 2, 3>>)
MB == Content(2, "/b.jpg", <<>>, <<>>)
MC == Content(3, "/c.jpg", <<0>>, <<1>>)

MetaPages == { <<MA, MB, MC>>, <<MB, MC, MA>>, <<MC, MA, MB>> }

MetaContexts ==
    { Context("movies", <<"en", "US">>, <<>>, f, t) : f \in {<<>>, <<"fk">>}, t \in {<<>>, <<"tk">>} }
    \cup { Context("series", <<"en", "US">>, <<>>, <<>>, <<>>) }

\* What the logo service and the media database answer with for an item.
LogoUrl(c) == [svc |-> "fanart", id |-> c.id]
ImdbId(c) == [ns |-> "imdb", id |-> c.id]

----------------------------------------------------------------------------
(* Poster Cache *)

\* getCachedPoster(`poster:${id}`)
getCachedPoster(id) == cache[id]

\* setCachedPoster(`poster:${id}`, url)
setCachedPoster(id, url) == [cache EXCEPT ![id] = Entry(url)]

----------------------------------------------------------------------------
(* buildMetas *)

\* results.filter(Boolean)
Boolean(r) == r # Dropped

\* Mutant of Results: the values are collected last callback first.
Results_Reversed(tk) == [i \in 1..Len(tk) |-> tk[Len(tk) + 1 - i].result]

\* The array Promise.all resolves with: the callbacks' values at the items' positions.
Results(tk) == [i \in 1..Len(tk) |-> tk[i].result]

\* Promise.all over the callbacks, then .then(results => results.filter(Boolean)).
Settle(tk) ==
    /\ status' = IF \E i \in 1..Len(tk) : tk[i].result = Rejected THEN "rejected"
                 ELSE IF \A i \in 1..Len(tk) : tk[i].pc = "done" THEN "resolved"
                 ELSE "running"
    /\ out' = IF \A i \in 1..Len(tk) : tk[i].pc = "done" /\ tk[i].result # Rejected
              THEN SelectSeq(Results(tk), Boolean)
              ELSE <<>>

Init ==
    /\ cache = [id \in Ids |-> NoEntry]
    /\ status = "idle"
    /\ ctx = NoCtx
    /\ items = <<>>
    /\ task = <<>>
    /\ out = <<>>

\* buildMetas(filteredResults, catalogType, language, rpdbApiKey, fanartApiKey, ...):
\* every callback runs up to its first outstanding call.
BuildMetas(cx, its) ==
    /\ status = "idle"
    /\ ctx' = cx
    /\ items' = its
    /\ task' = [i \in 1..Len(its) |-> StartPoster(cx, its[i], NewTask)]
    /\ Settle(task')
    /\ UNCHANGED cache

\* The callback of item i takes one step to tk; the cache becomes ch.
Step(i, tk, ch) ==
    /\ task' = [task EXCEPT ![i] = tk]
    /\ cache' = ch
    /\ Settle(task')
    /\ UNCHANGED <<ctx, items>>

At(i, pc) == i \in 1..Len(task) /\ task[i].pc = pc

CacheGetDone(i) ==
    /\ At(i, "cacheGet")
    /\ Step(i, AfterCacheGet(ctx, items[i], task[i], getCachedPoster(items[i].id)), cache)

CacheGetThrow(i) ==
    /\ At(i, "cacheGet")
    /\ Step(i, PosterRejected(ctx, items[i], [task[i] EXCEPT !.ev.get = "error"]), cache)

ProbeDone(i) ==
    /\ At(i, "probe")
    /\ \E code \in ProbeStatuses :
          Step(i, AfterProbe(ctx, items[i], task[i], code), cache)

ProbeThrow(i) ==
    /\ At(i, "probe")
    /\ Step(i, ProbeCatch(ctx, items[i], [task[i] EXCEPT !.ev.probe = "error"]), cache)

CacheSetDone(i) ==
    /\ At(i, "cacheSet")
    /\ Step(i, AfterCacheSet(ctx, items[i], task[i]),
            setCachedPoster(items[i].id, task[i].rpdbImage))

CacheSetThrow(i) ==
    /\ At(i, "cacheSet")
    /\ Step(i, ProbeCatch(ctx, items[i], [task[i] EXCEPT !.ev.set = "error"]), cache)

CloudGetDone(i) ==
    /\ At(i, "cloudGet")
    /\ \E u \in {NoUrl, CloudUrl(contentId(items[i]))} :
          Step(i, AfterCloudGet(ctx, items[i], task[i], u), cache)

CloudGetThrow(i) ==
    /\ At(i, "cloudGet")
    /\ Step(i, CloudCatch(ctx, items[i], task[i]), cache)

CreateDone(i) ==
    /\ At(i, "create")
    /\ \E data \in CreateResponses(items[i]) :
          Step(i, AfterCreate(ctx, items[i], task[i], data), cache)

CreateThrow(i) ==
    /\ At(i, "create")
    /\ Step(i, CreateCatch(ctx, items[i], task[i]), cache)

LogoDone(i) ==
    /\ At(i, "logo")
    /\ \E l \in {NoUrl, LogoUrl(items[i])} :
          Step(i, AfterLogo(ctx, items[i], task[i], l), cache)

LogoFail(i) ==
    /\ At(i, "logo")
    /\ Step(i, LogoThrow(ctx, items[i], task[i]), cache)

XrefDone(i) ==
    /\ At(i, "xref")
    /\ \E x \in {NoId, ImdbId(items[i])} :
          Step(i, AfterXref(ctx, items[i], task[i], x), cache)

XrefFail(i) ==
    /\ At(i, "xref")
    /\ Step(i, XrefCatch(ctx, items[i], task[i]), cache)

GenreDone(i) ==
    /\ At(i, "genres")
    /\ \E g \in task[i].pending :
          Step(i, AfterGenre(ctx, items[i], task[i], g), cache)

GenreFail(i) ==
    /\ At(i, "genres")
    /\ Step(i, GenreThrow(ctx, items[i], task[i]), cache)

\* The caller takes the result; the next buildMetas call can start.
Return ==
    /\ status \in {"resolved", "rejected"}
    /\ \A i \in 1..Len(task) : task[i].pc = "done"
    /\ status' = "idle"
    /\ ctx' = NoCtx
    /\ items' = <<>>
    /\ task' = <<>>
    /\ out' = <<>>
    /\ UNCHANGED cache

Slots == 1..MaxItems

PaidStep(i) ==
    \/ CacheGetDone(i)
    \/ CacheGetThrow(i)
    \/ ProbeDone(i)
    \/ ProbeThrow(i)
    \/ CacheSetDone(i)
    \/ CacheSetThrow(i)

CloudStep(i) ==
    \/ CloudGetDone(i)
    \/ CloudGetThrow(i)
    \/ CreateDone(i)
    \/ CreateThrow(i)

MetaStep(i) ==
    \/ LogoDone(i)
    \/ LogoFail(i)
    \/ XrefDone(i)
    \/ XrefFail(i)
    \/ GenreDone(i)
    \/ GenreFail(i)

StartPosterBatch == \E cx \in PosterContexts, its \in Batches(PosterPages) : BuildMetas(cx, its)

StartMetaBatch == \E cx \in MetaContexts, its \in Batches(MetaPages) : BuildMetas(cx, its)

NextPoster ==
    \/ StartPosterBatch
    \/ \E i \in Slots : PaidStep(i)
    \/ \E i \in Slots : CloudStep(i)
    \/ Return

Next ==
    \/ StartMetaBatch
    \/ \E i \in Slots : CloudStep(i)
    \/ \E i \in Slots : MetaStep(i)
    \/ Return

\* buildMetas with the logo-service key and the lookup key configured or not, and
\* no paid-service key.
Spec == Init /\ [][Next]_vars

\* buildMetas on items without genres and with the paid-service key only: the
\* calls of getPosterUrl, over every kind, language and key tier.
SpecPoster == Init /\ [][NextPoster]_vars

----------------------------------------------------------------------------
(* Properties *)

Tasks == 1..Len(task)

HasPosterPath(i) == items[i].poster_path # ""

HasPaidKey == ctx.rpdbApiKey # <<>>

PosterPcs == {"cacheGet", "probe", "cacheSet", "cloudGet", "create"}

\* The raw fallback URL of item i, written out.
RawFallbackUrl(i) ==
    [svc |-> "tmdb", prefix |-> "https://image.tmdb.org/t/p/w500", path |-> items[i].poster_path]

\* C1: for every item that has a poster path getPosterUrl never rejects and, once
\* it has returned, its result is a URL; a null result occurs only for an item
\* without a poster path.  (Violated: a rejected Poster Cache lookup rejects
\* getPosterUrl.)
C1_NeverFails ==
    \A i \in Tasks :
        /\ HasPosterPath(i) => task[i].poster # "rejected"
        /\ HasPosterPath(i) /\ task[i].poster = "returned" => task[i].posterUrl # NoUrl
        /\ task[i].poster = "returned" /\ task[i].posterUrl = NoUrl => ~HasPosterPath(i)

\* C2: for an item without a poster path getPosterUrl has returned null as soon as
\* it was called, and has issued no Poster Cache get or set, no probe, no Cloud
\* Poster Store query and no creation call, with or without a paid-service key.
C2_NoPosterPath ==
    \A i \in Tasks :
        ~HasPosterPath(i) =>
            /\ task[i].poster = "returned"
            /\ task[i].posterUrl = NoUrl
            /\ task[i].calls.get = 0
            /\ task[i].calls.probe = 0
            /\ task[i].calls.set = 0
            /\ task[i].calls.cloud = 0
            /\ task[i].calls.create = 0
            /\ task[i].cachedPoster = NoEntry

C2_Witness ==
    \E i \in Tasks : ~HasPosterPath(i) /\ HasPaidKey /\ task[i].poster = "returned"

\* C3: whenever the Poster Cache holds an entry for the item's id and the lookup of
\* a resolution with a paid-service key answers, that resolution returns the URL of
\* the entry in the same step, has issued no probe, no Cloud Poster Store query, no
\* creation call and no cache write, and the Poster Cache is unchanged.
C3_WarmCacheIdempotent ==
    [][\A i \in Tasks :
          ( /\ task[i].pc = "cacheGet"
            /\ cache[items[i].id].present
            /\ task'[i].pc # "cacheGet"
            /\ task'[i].ev.get # "error" )
          => /\ task'[i].poster = "returned"
             /\ task'[i].posterUrl = cache[items[i].id].poster_url
             /\ task'[i].calls.probe = 0
             /\ task'[i].calls.set = 0
             /\ task'[i].calls.cloud = 0
             /\ task'[i].calls.create = 0
             /\ cache' = cache]_vars

\* Two resolutions of one call for the same id that both hit the warmed cache and
\* returned the same URL.
C3_Witness ==
    \E i, j \in Tasks :
        /\ i # j
        /\ items[i].id = items[j].id
        /\ HasPaidKey
        /\ task[i].ev.get = "hit" /\ task[j].ev.get = "hit"
        /\ task[i].poster = "returned" /\ task[j].poster = "returned"
        /\ task[i].posterUrl = task[j].posterUrl
        /\ task[i].posterUrl = cache[items[i].id].poster_url
        /\ task[i].calls.probe = 0 /\ task[j].calls.probe = 0

\* C4: for an item with a poster path, when the probe failed or no key is supplied,
\* the Cloud Poster Store query missed and the creation call failed, getPosterUrl
\* has returned exactly the prefix https://image.tmdb.org/t/p/w500 followed by the
\* item's poster path.
C4_TierFallback ==
    \A i \in Tasks :
        ( /\ HasPosterPath(i)
          /\ (task[i].ev.probe \in {"fail", "error"} \/ ~HasPaidKey)
          /\ task[i].ev.cloud = "miss"
          /\ task[i].ev.create \in {"fail", "error"} )
        => /\ task[i].poster = "returned"
           /\ task[i].posterUrl = RawFallbackUrl(i)

C4_Witness ==
    \E i, j \in Tasks :
        /\ task[i].ev.probe = "fail" /\ task[i].ev.cloud = "miss" /\ task[i].ev.create = "fail"
        /\ task[i].posterUrl = RawFallbackUrl(i)
        /\ task[j].ev.probe = "error" /\ task[j].ev.cloud = "miss" /\ task[j].ev.create = "error"
        /\ task[j].posterUrl = RawFallbackUrl(j)

\* C5: whenever the Cloud Poster Store query answered with an existing URL for the
\* item's cloud key, getPosterUrl has returned that URL and has issued no creation
\* call.
C5_TierShortcut ==
    \A i \in Tasks :
        task[i].ev.cloud = "hit" =>
            /\ task[i].poster = "returned"
            /\ task[i].posterUrl = CloudUrl([id |-> items[i].id, rating |-> rating(items[i])])
            /\ task[i].calls.create = 0
            /\ task[i].ev.create = "none"

C5_Witness ==
    \E i \in Tasks :
        /\ task[i].ev.cloud = "hit"
        /\ task[i].poster = "returned"
        /\ task[i].posterUrl.svc = "cloud"

\* C6: for an item with a poster path resolved with no paid-service key, no Poster
\* Cache get or set and no probe is ever issued, and the Cloud Poster Store query is
\* the first call of the resolution.
C6_NoKeyNoProbe ==
    \A i \in Tasks :
        HasPosterPath(i) /\ ~HasPaidKey =>
            /\ task[i].calls.get = 0
            /\ task[i].calls.probe = 0
            /\ task[i].calls.set = 0
            /\ task[i].ev.get = "none"
            /\ task[i].rpdbImage = NoUrl
            /\ task[i].calls.cloud = 1

C6_Witness ==
    \E i \in Tasks :
        /\ HasPosterPath(i)
        /\ ~HasPaidKey
        /\ task[i].poster = "returned"
        /\ task[i].posterUrl # NoUrl

\* The processing of item i threw: getPosterUrl, the logo fetch or a genre lookup
\* rejected.
Threw(i) ==
    \/ task[i].poster = "rejected"
    \/ task[i].ev.logo = "error"
    \/ task[i].ev.genre = "error"

\* The indices up to n of the items whose processing did not throw, in order.
RECURSIVE Kept(_)
Kept(n) ==
    IF n = 0 THEN <<>>
    ELSE IF Threw(n) THEN Kept(n - 1) ELSE Append(Kept(n - 1), n)

\* C7: buildMetas never rejects, and when it has resolved its output holds one
\* complete record for every item whose processing did not throw and none for an
\* item whose processing threw.
C7_BatchResilience ==
    /\ status # "rejected"
    /\ status = "resolved" =>
          LET kept == Kept(Len(items))
          IN  /\ Len(out) = Len(kept)
              /\ \A k \in 1..Len(kept) :
                    /\ out[k].st = "meta"
                    /\ out[k] = task[kept[k]].result
                    /\ out[k].poster = task[kept[k]].posterUrl
                    /\ out[k].id.id = items[kept[k]].id

C7_Witness ==
    /\ status = "resolved"
    /\ Len(items) = 2
    /\ \E i, j \in Tasks :
          /\ i # j
          /\ Threw(i)
          /\ ~Threw(j)
          /\ Len(out) = 1
          /\ out[1].id.id = items[j].id

C9_LogoFailureNonFatal ==
    \A i \in Tasks :
        ( /\ ctx.fanartApiKey # <<>>
          /\ task[i].pc = "done"
          /\ task[i].ev.logo \in {"error", "empty"}
          /\ task[i].ev.genre # "error" )
        => /\ task[i].result.st = "meta"
           /\ task[i].result.logo = NoUrl

\* C10: an item one of whose genre lookups rejected is still emitted.  (Violated:
\* the rejection drops the whole item.)
C10_GenreRejectionSwallowed ==
    \A i \in Tasks :
        task[i].pc = "done" /\ task[i].ev.genre = "error" => task[i].result.st = "meta"


\* The names of the rows of the reference table for the genre ids `ids`, in the
\* order of `ids`; an id without a row contributes nothing.
RECURSIVE RowNames(_, _, _)
RowNames(ids, mediaType, language) ==
    IF ids = <<>> THEN <<>>
    ELSE LET rows == { r \in GenreRows : /\ r.genre_id = Head(ids)
                                         /\ r.media_type = mediaType
                                         /\ r.language = language }
         IN  (IF rows = {} THEN <<>> ELSE <<(CHOOSE r \in rows : TRUE).genre_name>>)
             \o RowNames(Tail(ids), mediaType, language)

ExpectedRating(v) ==
    IF v # <<>> THEN [fmt |-> "fixed1", tenths |-> ToFixed1(v[1])]
    ELSE [fmt |-> "NR", tenths |-> 0]

\* C12: for every emitted item whose poster came from the cloud tier, the rating
\* in the cloud key and the rating field of the record agree: both are the vote
\* average to one decimal place when it is present (0 included), and both are
\* the "not rated" marker when it is absent.
C12_RatingAgreement ==
    \A i \in Tasks :
        /\ task[i].pc = "done"
        /\ task[i].result.st = "meta"
        /\ task[i].result.poster.svc \in {"cloud", "rendered"}
        => /\ task[i].result.poster.key.rating = ExpectedRating(items[i].vote_average)
           /\ task[i].result.imdbRating = ExpectedRating(items[i].vote_average)


\* C13: no at-most-once guarantee per key. Every resolution whose Poster Cache
\* lookup missed issues its own probe and every resolution whose Cloud Poster
\* Store query missed issues its own creation call, whatever the other in-flight
\* resolutions of the same content identifier have issued.
C13_NoAtMostOnce ==
    \A i \in Tasks :
        /\ task[i].ev.get = "miss" => task[i].calls.probe = 1
        /\ task[i].ev.cloud = "miss" => task[i].calls.create = 1

\* Two resolutions of one content identifier, both with their probe issued and
\* both with their creation call for the same cloud key in flight.
C13_Witness ==
    \E i, j \in Tasks :
        /\ i < j
        /\ HasPaidKey
        /\ contentId(items[i]) = contentId(items[j])
        /\ task[i].calls.probe = 1 /\ task[j].calls.probe = 1
        /\ task[i].pc = "create" /\ task[j].pc = "create"
        /\ task[i].calls.create = 1 /\ task[j].calls.create = 1


\* The synthetic id `tmdb:${content.id}` of the i-th item.
SyntheticId(i) == [ns |-> "tmdb", id |-> items[i].id]

\* C14: a failed cross-reference fetch (only issued when a lookup key is
\* configured) does not drop the item: unless another step of the item threw, the
\* item is emitted with a null external identifier and with the synthetic id as
\* record id and default-playback hint; a fetch that answered with an identifier
\* gives that identifier in both; in every emitted record the hint equals the id.
C14_XrefFailureNonFatal ==
    \A i \in Tasks :
        /\ task[i].ev.xref # "none" => ctx.tmdbApiKey # <<>>
        /\ task[i].pc = "done" =>
              /\ task[i].result.st = "meta" =>
                    task[i].result.defaultVideoId = task[i].result.id
              /\ task[i].ev.xref = "error" /\ ~Threw(i) =>
                    /\ task[i].result.st = "meta"
                    /\ task[i].imdbId = NoId
                    /\ task[i].result.id = SyntheticId(i)
                    /\ task[i].result.defaultVideoId = SyntheticId(i)
              /\ task[i].ev.xref = "ok" /\ task[i].result.st = "meta" =>
                    /\ task[i].result.id \in {ImdbId(items[i]), SyntheticId(i)}
                    /\ task[i].imdbId # NoId =>
                          /\ task[i].result.id = task[i].imdbId
                          /\ task[i].result.defaultVideoId = task[i].imdbId

\* One item emitted under its synthetic id after its cross-reference fetch
\* failed, next to one emitted under the identifier its fetch answered with.
C14_Witness ==
    \E i, j \in Tasks :
        /\ task[i].pc = "done" /\ task[j].pc = "done"
        /\ task[i].ev.xref = "error"
        /\ task[i].result.st = "meta"
        /\ task[i].result.id = SyntheticId(i)
        /\ task[j].ev.xref = "ok"
        /\ task[j].result.st = "meta"
        /\ task[j].result.id = ImdbId(items[j])
        /\ task[j].result.defaultVideoId = ImdbId(items[j])


----------------------------------------------------------------------------
(* getRpdbPoster on its own *)

\* Arguments of getRpdbPoster: keys and language tags as their "-"-separated
\* segments.
UrlTypes == {"movies", "series"}
UrlKeys ==
    { <<"t0", "k">>, <<"t1", "k">>, <<"t2", "k">>, <<"t3", "k">>, <<"t1">>,
      <<"t10", "k">>, <<"k", "t1">>, <<"t1", "a", "b">> }
UrlLanguages ==
    { <<"en", "US">>, <<"fr">>, <<"pt", "BR">>, <<"en">>, <<"zh", "Hant", "TW">> }

\* One call getRpdbPoster(type, id, language, rpdbkey); `out` holds its result.
CallGetRpdbPoster ==
    \E type \in UrlTypes, id \in Ids, language \in UrlLanguages, rpdbkey \in UrlKeys :
        /\ status' = "getRpdbPoster"
        /\ ctx' = [type |-> type, id |-> id, language |-> language, rpdbkey |-> rpdbkey]
        /\ out' = <<getRpdbPoster(type, id, language, rpdbkey)>>
        /\ UNCHANGED <<cache, items, task>>

NextUrl == CallGetRpdbPoster

SpecUrl == Init /\ [][NextUrl]_vars

\* C15: for a key whose first dash-delimited segment is t0 or t1 the candidate
\* URL carries no language parameter; for every other key it ends with
\* &lang=<the part of the language tag before its first dash>. The rest of the
\* URL is built from the key, the kind and the id alone.
C15_TieringRule ==
    status = "getRpdbPoster" =>
        LET url == out[1]
        IN  /\ url.svc = "rpdb"
            /\ url.key = ctx.rpdbkey /\ url.type = ctx.type /\ url.id = ctx.id
            /\ ctx.rpdbkey[1] \in {"t0", "t1"} => ~url.hasLang /\ url.lang = ""
            /\ ctx.rpdbkey[1] \notin {"t0", "t1"} =>
                  url.hasLang /\ url.lang = ctx.language[1]

\* Tier t0 with en-US: no language parameter.
C15_Witness ==
    /\ status = "getRpdbPoster"
    /\ ctx.rpdbkey = <<"t0", "k">>
    /\ ctx.language = <<"en", "US">>
    /\ ~out[1].hasLang


\* C16: with a paid-service key, a missed Poster Cache lookup and a probe that
\* answered with a 200-class response (and a cache write that did not fail), the
\* resolution writes the candidate URL to the Poster Cache and returns it, with no
\* Cloud Poster Store query and no creation call.
C16_Any2xxStoresAndReturns ==
    \A i \in Tasks :
        ( /\ HasPaidKey
          /\ task[i].ev.get = "miss"
          /\ task[i].ev.probe \in {"ok", "fail"}
          /\ task[i].ev.set # "error" )
        => /\ task[i].calls.set = 1
           /\ task[i].calls.cloud = 0
           /\ task[i].calls.create = 0
           /\ task[i].poster = "returned" =>
                 /\ task[i].posterUrl = task[i].rpdbImage
                 /\ cache[items[i].id].present


\* C17: within one resolution the Poster Cache lookup, the probe, the Cloud
\* Poster Store query and the creation call are each issued at most once; with a
\* key the probe is issued only after the lookup missed and the store query only
\* after the probe (or the cache write) failed; the creation call is issued only
\* after the store query missed; and once a tier has produced the result no
\* later-tier call is issued.
C17_TierOrder ==
    \A i \in Tasks :
        LET t == task[i]
        IN  /\ t.calls.get <= 1 /\ t.calls.probe <= 1
            /\ t.calls.cloud <= 1 /\ t.calls.create <= 1
            /\ t.calls.probe = 1 => t.calls.get = 1 /\ t.ev.get = "miss"
            /\ t.calls.cloud = 1 /\ HasPaidKey =>
                  /\ t.calls.probe = 1
                  /\ t.ev.probe \in {"fail", "error"} \/ t.ev.set = "error"
            /\ t.calls.create = 1 => t.calls.cloud = 1 /\ t.ev.cloud = "miss"
            /\ t.ev.get \in {"hit", "error"} =>
                  t.calls.probe = 0 /\ t.calls.cloud = 0 /\ t.calls.create = 0
            /\ t.ev.set = "ok" => t.calls.cloud = 0 /\ t.calls.create = 0
            /\ t.ev.cloud \in {"hit", "error"} => t.calls.create = 0

\* A resolution that went through all four tiers, each called once.
C17_Witness ==
    \E i \in Tasks :
        /\ HasPaidKey
        /\ task[i].poster = "returned"
        /\ task[i].calls.get = 1 /\ task[i].calls.probe = 1
        /\ task[i].calls.cloud = 1 /\ task[i].calls.create = 1
        /\ task[i].ev.probe = "error"
        /\ task[i].ev.create = "ok"


\* C18: when buildMetas has resolved, its output is an order-preserving
\* subsequence of the batch: there is a strictly increasing map from the positions
\* of the output to the positions of the batch such that every record is the one
\* built from the item it is mapped to; no item yields more than one record.
C18_OrderPreservingSubsequence ==
    status = "resolved" =>
        /\ Len(out) <= Len(items)
        /\ \E f \in [1..Len(out) -> 1..Len(items)] :
              /\ \A k, l \in 1..Len(out) : k < l => f[k] < f[l]
              /\ \A k \in 1..Len(out) :
                    /\ out[k].st = "meta"
                    /\ out[k] = task[f[k]].result
                    /\ out[k].id.id = items[f[k]].id

\* A resolved call with the records of two different items, in batch order.
C18_Witness ==
    /\ status = "resolved"
    /\ Len(items) >= 2
    /\ Len(out) >= 2
    /\ items[1].id # items[2].id
    /\ out[1].id.id = items[1].id
    /\ out[2].id.id = items[2].id


\* C19: whenever a resolution with parameters (kind, id, language, key) has
\* returned a paid-service URL, that URL is the candidate built by getRpdbPoster
\* for the same kind, id, language and key, also when it came from a Poster Cache
\* hit.
C19_ReturnedUrlMatchesCall ==
    \A i \in Tasks :
        task[i].poster = "returned" /\ task[i].posterUrl.svc = "rpdb" =>
            task[i].posterUrl =
                getRpdbPoster(ctx.catalogType, items[i].id, ctx.language, ctx.rpdbApiKey)


\* C20: in every reachable state each Poster Cache entry is a paid-service
\* candidate URL for the id it is stored under, and no resolution that hit the
\* cache or whose probe failed has issued a cache write; every step that changes
\* the Poster Cache is the completion of the write of a resolution whose lookup
\* missed and whose probe of that same URL answered 200, and stores exactly that
\* URL under the item's id; no step removes an entry.
C20_CacheContents ==
    /\ [](\A id \in Ids :
             cache[id].present =>
                 /\ cache[id].poster_url.svc = "rpdb"
                 /\ cache[id].poster_url.id = id)
    /\ [](\A i \in Tasks :
             task[i].ev.get = "hit" \/ task[i].ev.probe \in {"fail", "error"} =>
                 task[i].calls.set = 0)
    /\ [][ /\ \A id \in Ids : cache[id].present => cache'[id].present
           /\ cache' # cache =>
                 \E i \in Tasks :
                     /\ task[i].pc = "cacheSet"
                     /\ task[i].ev.get = "miss"
                     /\ task[i].ev.probe = "ok"
                     /\ task[i].rpdbImage.svc = "rpdb"
                     /\ task[i].rpdbImage.id = items[i].id
                     /\ task[i].rpdbImage.key = ctx.rpdbApiKey
                     /\ task'[i].ev.set = "ok"
                     /\ cache' = [cache EXCEPT ![items[i].id] = Entry(task[i].rpdbImage)]
         ]_vars

\* An entry written by a resolution whose lookup missed and whose probe
\* answered 200.
C20_Witness ==
    \E i \in Tasks :
        /\ task[i].ev.get = "miss"
        /\ task[i].ev.probe = "ok"
        /\ task[i].ev.set = "ok"
        /\ cache[items[i].id] = Entry(task[i].rpdbImage)

====
